---- MODULE Spec2Model ----
(***************************************************************************)
(* Model of the idle game of src/app.rs: the State record, the reducer     *)
(* (Tick, UpgradeProduction, Save, Load, Reset), State::save / State::load *)
(* over the single localStorage slot "idle_game_save", and the two         *)
(* intervals (1 s tick, 5 s autosave) that the App component creates, and  *)
(* the view: format_number and State::format_last_saved.                   *)
(*                                                                         *)
(* Time is the wall clock js_sys::Date::now() in milliseconds.  Every step *)
(* is one event delivered some delay d after the previous one.  BigUint    *)
(* values are naturals; on the wire they are decimal strings, modelled as  *)
(* sequences of characters (0..9 are the digits, NonDigit any other one).  *)
(***************************************************************************)
EXTENDS Integers, Sequences, FiniteSets, TLC

\* ------------------------------------------------------------------ bounds
MaxNow        == 5500      \* the clock stops advancing here
MaxCounter    == 110       \* Tick is not delivered beyond this counter
MaxProduction == 4         \* UpgradeProduction is not delivered beyond this

\* wall clock at mount, and delays between consecutive events, in ms
InitNows == {500}
Deltas   == {0, 2500}

MaxIntervalKey  == 2       \* the "Load Game" button is pressed at most so often
MaxDigits       == 32      \* longest number given to format_number
MaxQuarterHours == 9       \* longest age given to format_last_saved, in 900 s

\* -------------------------------------------------------- program constants
TICK_MS     == 1000
AUTOSAVE_MS == 5000
NonDigit    == 10

VARIABLES
    state,            \* the live State held by use_reducer
    store,            \* the localStorage slot "idle_game_save"
    now,              \* js_sys::Date::now()
    event,            \* the event processed by the last step
    ok,               \* whether the save / load of the last step succeeded
    autosave_state,   \* the State captured by the autosave closure
    tick_due,         \* earliest time the tick interval fires next
    autosave_due,     \* earliest time the autosave interval fires next
    interval_key,     \* the use_state counter the interval effects depend on
    tick_intervals,   \* number of live tick Interval objects
    autosave_intervals, \* number of live autosave Interval objects
    console,          \* what the last step wrote with console::log_1
    num_str,          \* the decimal string of the counter on display
    formatted,        \* the counter as rendered by format_number
    last_saved_text   \* the "Last saved:" text as rendered

timers == <<interval_key, tick_intervals, autosave_intervals>>
view   == <<num_str, formatted, last_saved_text>>

vars == <<state, store, now, event, ok, autosave_state, tick_due, autosave_due,
          interval_key, tick_intervals, autosave_intervals, console,
          num_str, formatted, last_saved_text>>

Max(a, b) == IF a >= b THEN a ELSE b

\* Option<T>: None is the empty sequence, Some(x) is <<x>>
None    == <<>>
Some(x) == <<x>>

\* ------------------------------------------------- BigUint <-> decimal string
RECURSIVE to_string(_)
to_string(n) ==
    IF n < 10 THEN <<n>> ELSE Append(to_string(n \div 10), n % 10)

parse_ok(s) == Len(s) > 0 /\ \A i \in 1..Len(s) : s[i] \in 0..9

RECURSIVE parse(_)
parse(s) ==
    IF Len(s) = 0 THEN 0
    ELSE 10 * parse(SubSeq(s, 1, Len(s) - 1)) + s[Len(s)]

\* ------------------------------------------------------------------- State
MkState(c, p, ls, lsa) ==
    [counter |-> c, production |-> p, last_save |-> ls, last_saved_at |-> lsa]

\* variant: a fresh state that produces nothing
State_new_zero_production(t) == MkState(0, 0, t, None)

State_new(t) == MkState(0, 1, t, None)

\* the serialized form: counter and production as decimal strings
Serialize(s) ==
    [present       |-> TRUE,
     counter       |-> to_string(s.counter),
     production    |-> to_string(s.production),
     last_save     |-> s.last_save,
     last_saved_at |-> s.last_saved_at]

MissingKey ==
    [present |-> FALSE, counter |-> <<>>, production |-> <<>>,
     last_save |-> 0, last_saved_at |-> None]

\* LocalStorage::get(..).ok(): Some(state) when the key is present and both
\* decimal strings parse
Deserialize(st) ==
    IF st.present /\ parse_ok(st.counter) /\ parse_ok(st.production)
    THEN Some(MkState(parse(st.counter), parse(st.production),
                      st.last_save, st.last_saved_at))
    ELSE None

\* variant: the elapsed time rounded to the nearest second
elapsed_seconds_rounded(t, last_save) ==
    IF t - last_save <= 0 THEN 0 ELSE (t - last_save + 500) \div 1000

\* ((now - last_save) / 1000.0) as u32: the cast truncates toward zero and
\* saturates; a negative quotient gives 0.  The upper saturation point
\* 2^32 - 1 seconds lies above every elapsed time of the model.
elapsed_seconds(t, last_save) ==
    IF t - last_save <= 0 THEN 0 ELSE (t - last_save) \div 1000

\* State::save: the value written and whether the write succeeded
State_save(self, t, st, write_ok) ==
    IF write_ok
    THEN [ok |-> TRUE,
          store |-> Serialize([self EXCEPT !.last_saved_at = Some(t)])]
    ELSE [ok |-> FALSE, store |-> st]

\* State::load
State_load(st, t) ==
    IF Deserialize(st) = None THEN None
    ELSE LET s == Deserialize(st)[1]
             e == elapsed_seconds(t, s.last_save)
             c == IF e > 0 THEN s.counter + s.production * e ELSE s.counter
         IN  Some([s EXCEPT !.counter = c, !.last_save = t])

\* ------------------------------------------------------------ format_number
\* a String is a sequence of one-character strings
Chr(d) == <<"0", "1", "2", "3", "4", "5", "6", "7", "8", "9">>[d + 1]

chars(ds) == [i \in 1..Len(ds) |-> Chr(ds[i])]

SUFFIXES ==
    << <<>>, <<"K">>, <<"M">>, <<"B">>, <<"T">>, <<"Q", "a">>, <<"Q", "i">>,
       <<"S", "x">>, <<"S", "p">>, <<"O", "c">> >>

\* an index out of range, a slice out of range: the thread panics
Panic == <<"panic">>

\* str.get(a..b).unwrap_or(default)
get_or(str, a, b, default) ==
    IF a <= b /\ b <= Len(str) THEN SubSeq(str, a + 1, b) ELSE default

\* variants of the test for the scientific notation
uses_scientific_by_suffix_index(len) == (len - 1) \div 3 >= Len(SUFFIXES)

uses_scientific_beyond(len) == len \div 3 > Len(SUFFIXES)

\* len / 3 >= SUFFIXES.len()
uses_scientific(len) == len \div 3 >= Len(SUFFIXES)

format_scientific(str) ==
    chars(SubSeq(str, 1, 1)) \o <<".">> \o chars(get_or(str, 1, 3, <<0>>))
        \o <<"e">> \o chars(to_string(Len(str) - 1))

\* variant: the two decimals are always shown
format_suffixed_with_zeros(str) ==
    LET len          == Len(str)
        suffix_index == (len - 1) \div 3
        offset       == len - suffix_index * 3
    IN  IF suffix_index >= Len(SUFFIXES) THEN Panic
        ELSE chars(SubSeq(str, 1, offset)) \o <<".">>
                \o chars(get_or(str, offset, offset + 2, <<0, 0>>))
                \o SUFFIXES[suffix_index + 1]

format_suffixed(str) ==
    LET len            == Len(str)
        suffix_index   == (len - 1) \div 3
        offset         == len - suffix_index * 3
        main_digits    == SubSeq(str, 1, offset)
        decimal_digits == get_or(str, offset, offset + 2, <<0, 0>>)
    IN  IF suffix_index >= Len(SUFFIXES) THEN Panic
        ELSE IF decimal_digits = <<0, 0>>
             THEN chars(main_digits) \o SUFFIXES[suffix_index + 1]
             ELSE chars(main_digits) \o <<".">> \o chars(decimal_digits)
                     \o SUFFIXES[suffix_index + 1]

\* format_number, on num.to_string()
format_number(str) ==
    IF Len(str) <= 3 THEN chars(str)
    ELSE IF uses_scientific(Len(str)) THEN format_scientific(str)
    ELSE format_suffixed(str)

\* -------------------------------------------------------- format_last_saved
\* variant: the quotient truncated
round_truncating(num, den) == num \div den

\* the integer nearest to num / den, a tie going to the even one: what
\* {:.0} prints of the quotient, and {:.1} of a tenth of it
round_half_even(num, den) ==
    LET q == num \div den
        r == num % den
    IN  IF 2 * r < den THEN q
        ELSE IF 2 * r > den THEN q + 1
        ELSE IF q % 2 = 0 THEN q ELSE q + 1

\* format!("{:.0}", ms / den) and format!("{:.1}", ms / den).  The second is
\* exact when the tie, if any, is a binary fraction (x.25, x.75), as are all
\* ties among the ages of the model.
fmt_0(ms, den) == chars(to_string(round_half_even(ms, den)))

fmt_1(ms, den) ==
    LET tenths == round_half_even(ms * 10, den)
    IN  chars(to_string(tenths \div 10)) \o <<".">> \o <<Chr(tenths % 10)>>

format_last_saved(self, t) ==
    IF self.last_saved_at = None THEN <<"Never">>
    ELSE LET ms == t - self.last_saved_at[1]
         IN  IF ms < 60000 THEN <<"Just now">>
             ELSE IF ms < 3600000
                  THEN fmt_0(ms, 60000) \o <<" minutes ago">>
             ELSE fmt_1(ms, 3600000) \o <<" hours ago">>

\* ------------------------------------------------------- the interval effects
Interval_new(n) == n + 1

Interval_drop(n) == n - 1

\* variant: an effect without its destructor
use_effect_with_deps_leaking(old_deps, new_deps, n) ==
    IF new_deps # old_deps THEN Interval_new(n) ELSE n

\* use_effect_with_deps: when the dependency has changed, the destructor of
\* the previous run drops its Interval and the effect creates a new one
use_effect_with_deps(old_deps, new_deps, n) ==
    IF new_deps # old_deps THEN Interval_new(Interval_drop(n)) ELSE n

\* ----------------------------------------------------------------- reducer
\* variants: a tick that subtracts, a tick that adds one
reducer_Tick_subtract(s) ==
    [s EXCEPT !.counter = Max(s.counter - s.production, 0)]

reducer_Tick_one(s) == [s EXCEPT !.counter = s.counter + 1]

reducer_Tick(s) == [s EXCEPT !.counter = s.counter + s.production]

\* variant: an upgrade that adds one
reducer_UpgradeProduction_increment(s) ==
    [s EXCEPT !.production = s.production + 1]

reducer_UpgradeProduction(s) == [s EXCEPT !.production = s.production * 2]

\* variant: a save that falls through to the tick
reducer_Save_tick(s) == reducer_Tick(s)

\* variant: a save that spends the counter
reducer_Save_spend(s) == [s EXCEPT !.counter = 0]

reducer_Save(s) == s

\* variant: a failed load that starts over
reducer_Load_fresh_on_failure(s, st, t) ==
    IF State_load(st, t) = None THEN State_new(t) ELSE State_load(st, t)[1]

reducer_Load(s, st, t) ==
    IF State_load(st, t) = None THEN s ELSE State_load(st, t)[1]

\* variant: a reset that keeps the production
reducer_Reset_keep_production(s, t) == MkState(0, s.production, t, None)

reducer_Reset(s, t) == State_new(t)

\* -------------------------------------------------------------------- Init
\* blobs a previous session of this program may have left in the slot
SavedBlobs ==
    { Serialize(MkState(c, p, ls, Some(ls + 500))) :
          c \in {98}, p \in {1, 2}, ls \in {0, 3000} }

MalformedBlob ==
    [present |-> TRUE, counter |-> <<1, NonDigit>>, production |-> <<1>>,
     last_save |-> 0, last_saved_at |-> None]

InitStores == {MissingKey, MalformedBlob} \cup SavedBlobs

\* use_reducer(|| State::load().unwrap_or_else(State::new))
InitialState(st, t) ==
    IF State_load(st, t) = None THEN State_new(t) ELSE State_load(st, t)[1]

\* the component after its first render, holding state s at time t: both
\* interval effects have run once
Mounted(st, s, t) ==
    /\ now = t
    /\ store = st
    /\ state = s
    /\ autosave_state = s
    /\ event = "Mount"
    /\ ok = TRUE
    /\ tick_due = t + TICK_MS
    /\ autosave_due = t + AUTOSAVE_MS
    /\ interval_key = 0
    /\ tick_intervals = Interval_new(0)
    /\ autosave_intervals = Interval_new(0)
    /\ console = <<>>

Init ==
    /\ \E t \in InitNows, st \in InitStores :
           Mounted(st, InitialState(st, t), t)
    /\ num_str = to_string(state.counter)
    /\ formatted = format_number(num_str)
    /\ last_saved_text = format_last_saved(state, now)

\* ----------------------------------------------------------------- actions
Advance(d) == now' = now + d /\ now' <= MaxNow

\* html!: the view of the new state
Render ==
    /\ num_str' = to_string(state'.counter)
    /\ formatted' = format_number(num_str')
    /\ last_saved_text' = format_last_saved(state', now')

\* the tick interval fires: dispatch(Msg::Tick)
Tick ==
    \E d \in Deltas :
        /\ Advance(d)
        /\ tick_intervals >= 1
        /\ now' >= tick_due
        /\ state.counter + state.production <= MaxCounter
        /\ state' = reducer_Tick(state)
        /\ tick_due' = now' + TICK_MS
        /\ event' = "Tick"
        /\ ok' = TRUE
        /\ console' = <<"tick">>
        /\ Render
        /\ UNCHANGED <<store, autosave_state, autosave_due, timers>>

\* the "Upgrade Production" button
UpgradeProduction ==
    \E d \in Deltas :
        /\ Advance(d)
        /\ state.production * 2 <= MaxProduction
        /\ state' = reducer_UpgradeProduction(state)
        /\ event' = "UpgradeProduction"
        /\ ok' = TRUE
        /\ console' = <<>>
        /\ Render
        /\ UNCHANGED <<store, autosave_state, tick_due, autosave_due, timers>>

\* the "Save Game" button; the reducer logs the error of a failed save
Save ==
    \E d \in Deltas, write_ok \in BOOLEAN :
        /\ Advance(d)
        /\ LET r == State_save(state, now', store, write_ok)
           IN  /\ store' = r.store
               /\ ok' = r.ok
               /\ console' = IF r.ok THEN <<>> ELSE <<"StorageError">>
        /\ state' = reducer_Save(state)
        /\ event' = "Save"
        /\ Render
        /\ UNCHANGED <<autosave_state, tick_due, autosave_due, timers>>

\* the "Load Game" button: on_load dispatches Msg::Load and bumps
\* interval_key, so both intervals are dropped and created again, their
\* closures capturing the state handle of the next render; a load that
\* fails writes nothing to the console
Load ==
    \E d \in Deltas :
        /\ Advance(d)
        /\ interval_key < MaxIntervalKey
        /\ state' = reducer_Load(state, store, now')
        /\ ok' = (State_load(store, now') # None)
        /\ console' = <<>>
        /\ interval_key' = interval_key + 1
        /\ tick_intervals' =
               use_effect_with_deps(interval_key, interval_key', tick_intervals)
        /\ autosave_intervals' =
               use_effect_with_deps(interval_key, interval_key',
                                    autosave_intervals)
        /\ autosave_state' = state'
        /\ tick_due' = now' + TICK_MS
        /\ autosave_due' = now' + AUTOSAVE_MS
        /\ event' = "Load"
        /\ Render
        /\ UNCHANGED store

\* variant: a reset that also removes the saved game
Reset_erasing ==
    \E d \in Deltas :
        /\ Advance(d)
        /\ state' = reducer_Reset(state, now')
        /\ store' = MissingKey
        /\ event' = "Reset"
        /\ ok' = TRUE
        /\ console' = <<>>
        /\ Render
        /\ UNCHANGED <<autosave_state, tick_due, autosave_due, timers>>

\* the "Reset Game" button
Reset ==
    \E d \in Deltas :
        /\ Advance(d)
        /\ state' = reducer_Reset(state, now')
        /\ event' = "Reset"
        /\ ok' = TRUE
        /\ console' = <<>>
        /\ Render
        /\ UNCHANGED <<store, autosave_state, tick_due, autosave_due, timers>>

\* the autosave interval fires: state.save() on the captured handle, the
\* error of a failed save logged
Autosave ==
    \E d \in Deltas, write_ok \in BOOLEAN :
        /\ Advance(d)
        /\ autosave_intervals >= 1
        /\ now' >= autosave_due
        /\ LET r == State_save(autosave_state, now', store, write_ok)
           IN  /\ store' = r.store
               /\ ok' = r.ok
               /\ console' = IF r.ok THEN <<>>
                             ELSE <<"Save error: StorageError">>
        /\ autosave_due' = now' + AUTOSAVE_MS
        /\ event' = "Autosave"
        /\ UNCHANGED <<state, autosave_state, tick_due, timers>>
        /\ Render

Next ==
    \/ Tick
    \/ UpgradeProduction
    \/ Save
    \/ Load
    \/ Reset
    \/ Autosave

Spec == Init /\ [][Next]_vars

TypeOK ==
    /\ now \in 0..MaxNow
    /\ state.counter \in Nat
    /\ state.production \in Nat
    /\ store.present \in BOOLEAN
    /\ ok \in BOOLEAN

\* ------------------------------------------- format_number on large numbers
\* the digits the leading places of a number are drawn from
FormatDigits == {0, 1, 5, 9}

LeadsOf(k) == { f \in [1..k -> FormatDigits] : f[1] # 0 }

\* decimal strings as BigUint::to_string gives them: no leading zero
NumStrs ==
    {<<0>>} \cup UNION { LeadsOf(k) : k \in 1..4 }
            \cup { f \o [i \in 1..n |-> 0] :
                       f \in LeadsOf(5), n \in 0..(MaxDigits - 5) }

InitFormat ==
    /\ Mounted(MissingKey, State_new(500), 500)
    /\ num_str \in NumStrs
    /\ formatted = <<>>
    /\ last_saved_text = format_last_saved(state, now)

\* the counter is rendered
RenderNumber ==
    /\ formatted = <<>>
    /\ formatted' = format_number(num_str)
    /\ UNCHANGED <<state, store, now, event, ok, autosave_state, tick_due,
                   autosave_due, timers, console, num_str, last_saved_text>>

NextFormat == RenderNumber

SpecFormat == InitFormat /\ [][NextFormat]_vars

\* ------------------------------------------- format_last_saved on long ages
\* the stamp of the save whose age is shown
SavedAts == {3000}

\* ages in ms: before the stamp, every half second up to an hour, and the
\* quarter hours beyond, on the dot and half a second later
Ages ==
    {-2500} \cup { 500 * k : k \in 0..7200 }
            \cup { 900000 * k + f : k \in 4..MaxQuarterHours, f \in {0, 500} }

InitLastSaved ==
    /\ \E ts \in SavedAts : \E lsa \in {None, Some(ts)}, age \in Ages :
           /\ lsa = None => age = 0
           /\ Mounted(MissingKey, MkState(98, 1, ts + age, lsa), ts + age)
    /\ num_str = to_string(state.counter)
    /\ formatted = format_number(num_str)
    /\ last_saved_text = <<>>

\* the "Last saved:" line is rendered
RenderLastSaved ==
    /\ last_saved_text = <<>>
    /\ last_saved_text' = format_last_saved(state, now)
    /\ UNCHANGED <<state, store, now, event, ok, autosave_state, tick_due,
                   autosave_due, timers, console, num_str, formatted>>

NextLastSaved == RenderLastSaved

SpecLastSaved == InitLastSaved /\ [][NextLastSaved]_vars

\* ------------------------------------------------------------- properties

\* C1: a successful Save followed at once, with no time passing, by a
\* successful Load gives back the counter and the production that were saved.
C1_RoundTrip ==
    [][ (event = "Save" /\ ok /\ event' = "Load" /\ ok' /\ now' = now)
        => (/\ state'.counter = state.counter
            /\ state'.production = state.production) ]_vars

\* C2: after a successful Save at time t, last_save equals t both in the
\* stored blob and in the live state.
C2_LastSaveUpdatedOnSave ==
    [][ (event' = "Save" /\ ok')
        => (store'.last_save = now' /\ state'.last_save = now') ]_vars

\* C3: a successful Load of a blob (c, p, L) at time now returns
\* counter = c + p * max(0, floor((now - L) / 1000)), production = p and
\* last_save = now.
C3_OfflineCatchUp ==
    [][ (event' = "Load" /\ ok')
        => LET c == parse(store.counter)
               p == parse(store.production)
               e == Max(0, (now' - store.last_save) \div 1000)
           IN  /\ state'.counter = c + p * e
               /\ state'.production = p
               /\ state'.last_save = now' ]_vars

\* a Load 2500 ms after the blob's last_save has credited 2 whole seconds
C3_Witness ==
    /\ event = "Load" /\ ok
    /\ now - store.last_save = 2500
    /\ state.counter = parse(store.counter) + 2 * parse(store.production)

\* C4 as stated: only Reset lowers the live counter.
C4_MonotoneExceptReset ==
    [][ event' # "Reset" => state'.counter >= state.counter ]_vars

\* C4 amended: no Tick, UpgradeProduction, Save or autosave step lowers the
\* live counter; only Reset and Load may.
C4_MonotoneExceptResetLoad ==
    [][ event' \notin {"Reset", "Load"}
        => state'.counter >= state.counter ]_vars

\* an autosave has written an older, smaller counter and the live one stands
C4_Witness ==
    /\ event = "Autosave" /\ ok
    /\ parse(store.counter) < state.counter

\* C5: Tick adds the production to the counter and changes nothing else,
\* the store included.
C5_Tick ==
    [][ event' = "Tick"
        => (/\ state'.counter = state.counter + state.production
            /\ state'.production = state.production
            /\ state'.last_save = state.last_save
            /\ state'.last_saved_at = state.last_saved_at
            /\ store' = store) ]_vars

\* a tick at production 2 has carried the counter from 98 to 100
C5_Witness ==
    event = "Tick" /\ state.counter = 100 /\ state.production = 2

\* C6: UpgradeProduction doubles the production, whatever the counter, and
\* changes nothing else.
C6_UpgradeProduction ==
    [][ event' = "UpgradeProduction"
        => (/\ state'.production = 2 * state.production
            /\ state'.counter = state.counter
            /\ state'.last_save = state.last_save
            /\ state'.last_saved_at = state.last_saved_at) ]_vars

\* an upgrade from 2 to 4 with nothing to pay from
C6_Witness ==
    event = "UpgradeProduction" /\ state.production = 4 /\ state.counter = 0

\* C7: Reset returns the fresh state whatever the state before.
C7_Reset ==
    [][ event' = "Reset"
        => state' = [counter |-> 0, production |-> 1,
                     last_save |-> now', last_saved_at |-> None] ]_vars

\* a reset of a game that had been restored and saved
C7_Witness ==
    /\ event = "Reset" /\ state.counter = 0 /\ now > 500
    /\ store.present /\ parse_ok(store.counter) /\ parse(store.counter) > 98

\* C8: a failed Save or a failed Load returns the input state.
C8_FailuresPreserveState ==
    [][ (event' \in {"Save", "Load"} /\ ~ok') => state' = state ]_vars

\* a Load of a malformed blob has failed on a game in progress
C8_Witness ==
    /\ event = "Load" /\ ~ok
    /\ store.present /\ state.counter > 0 /\ state.production > 1

\* C9: production >= 1 and counter >= 0 in every reachable state.
C9_Invariant ==
    state.production >= 1 /\ state.counter >= 0

\* a Load has restored a game whose production had been upgraded to 4
C9_Witness ==
    event = "Load" /\ ok /\ state.production = 4 /\ state.counter >= 100

\* C10: a successful Save right after a successful Save leaves the live
\* counter and production alone and writes the same counter and production.
C10_SaveIdempotent ==
    [][ (event = "Save" /\ ok /\ event' = "Save" /\ ok')
        => (/\ state'.counter = state.counter
            /\ state'.production = state.production
            /\ store'.counter = store.counter
            /\ store'.production = store.production) ]_vars

\* a save has succeeded on a game with a three-digit counter
C10_Witness ==
    /\ event = "Save" /\ ok
    /\ store.counter = <<1, 0, 0>> /\ state.counter = 100
    /\ store.last_saved_at = Some(now) /\ now > state.last_save

\* C14: the blob an autosave writes carries the counter and the production
\* of the live state current when the autosave fires.
C14_AutosaveWritesCurrent ==
    [][ (event' = "Autosave" /\ ok')
        => (/\ store'.counter = to_string(state.counter)
            /\ store'.production = to_string(state.production)) ]_vars

\* C15: after a successful Save the live state's last_saved_at is present
\* and equals the time of that save.
C15_LastSavedAtStamped ==
    [][ (event' = "Save" /\ ok')
        => state'.last_saved_at = Some(now') ]_vars

\* C19: from every reachable state, Tick then Save and Save then Tick give
\* the same live counter and production.
C19_TickSaveCommute ==
    LET ts == reducer_Save(reducer_Tick(state))
        st == reducer_Tick(reducer_Save(state))
    IN  ts.counter = st.counter /\ ts.production = st.production

\* a Save delivered in the same instant as a Tick, after it
C19_Witness ==
    /\ event = "Save" /\ ok
    /\ tick_due = now + TICK_MS /\ state.last_save < now
    /\ store.counter = to_string(state.counter) /\ state.counter > 98

\* C20: Tick, UpgradeProduction, Load and Reset leave the stored blob
\* unchanged, and a successful Load right after a Reset restores the saved
\* counter (plus catch-up) and production.
C20_StoreWrittenOnlyBySave ==
    [][ /\ (event' \in {"Tick", "UpgradeProduction", "Load", "Reset"}
              => store' = store)
        /\ (event = "Reset" /\ event' = "Load" /\ ok')
              => (/\ state'.production = parse(store.production)
                  /\ state'.counter = parse(store.counter)
                        + parse(store.production)
                          * elapsed_seconds(now', store.last_save)) ]_vars

\* a Reset right after a successful Save has left the saved game in place
C20_Witness ==
    /\ event = "Reset" /\ state.counter = 0 /\ state.last_save = now
    /\ store.present /\ store.last_saved_at = Some(now)
    /\ parse_ok(store.counter) /\ parse(store.counter) >= 100
    /\ store.production = <<4>>

Abs(x) == IF x < 0 THEN -x ELSE x

\* a rendered number is in scientific notation when it holds an "e"
IsScientific(out) == \E i \in 1..Len(out) : out[i] = "e"

EndsWith(out, suffix) ==
    /\ Len(out) >= Len(suffix)
    /\ SubSeq(out, Len(out) - Len(suffix) + 1, Len(out)) = suffix

\* C11: a number of at most 3 digits is shown as its decimal string; a longer
\* one shown with a suffix is its first offset digits and the suffix when
\* the next two digits are 00, and otherwise the first offset digits, ".",
\* the next two digits and the suffix.
C11_SuffixPath ==
    formatted # <<>> =>
        LET len  == Len(num_str)
            si   == (len - 1) \div 3
            off  == len - 3 * si
            main == chars(SubSeq(num_str, 1, off))
            dec  == SubSeq(num_str, off + 1, off + 2)
        IN  /\ len <= 3 => formatted = chars(num_str)
            /\ (len > 3 /\ ~IsScientific(formatted))
                 => formatted =
                        IF dec = <<0, 0>> THEN main \o SUFFIXES[si + 1]
                        ELSE main \o <<".">> \o chars(dec) \o SUFFIXES[si + 1]

\* 1500 has been rendered as 1.50K
C11_Witness ==
    num_str = <<1, 5, 0, 0>> /\ formatted = <<"1", ".", "5", "0", "K">>

\* C12: a number of exactly 30 digits is shown as d1 "." d2 d3 "e29", and no
\* number makes format_number index the suffix list out of range.
C12_ThirtyDigitsScientific ==
    formatted # <<>> =>
        /\ formatted # Panic
        /\ Len(num_str) = 30
             => formatted = <<Chr(num_str[1]), ".", Chr(num_str[2]),
                              Chr(num_str[3]), "e", "2", "9">>

\* a number of 30 digits starting 519 has been rendered as 5.19e29
C12_Witness ==
    /\ Len(num_str) = 30
    /\ formatted = <<"5", ".", "1", "9", "e", "2", "9">>

\* C13: "Never" without a stamp; with e the whole seconds since the stamp,
\* "Just now" when e < 60, "<m> minutes ago" with m a whole number nearest
\* to e / 60 when 60 <= e < 3600, and "<h> hours ago" with h a one-decimal
\* number nearest to e / 3600 when e >= 3600.
C13_FormatLastSaved ==
    last_saved_text # <<>> =>
        IF state.last_saved_at = None THEN last_saved_text = <<"Never">>
        ELSE LET e == (now - state.last_saved_at[1]) \div 1000
             IN  /\ e < 60 => last_saved_text = <<"Just now">>
                 /\ (60 <= e /\ e < 3600)
                      => \E m \in 0..61 :
                             /\ Abs(60 * m - e) <= 30
                             /\ last_saved_text =
                                    chars(to_string(m)) \o <<" minutes ago">>
                 /\ e >= 3600
                      => \E h \in 0..(3 * MaxQuarterHours) :
                             /\ Abs(360 * h - e) <= 180
                             /\ last_saved_text =
                                    chars(to_string(h \div 10))
                                        \o <<".", Chr(h % 10), " hours ago">>

\* a stamp 7200 s old has been rendered as 2.0 hours ago
C13_Witness ==
    /\ state.last_saved_at # None
    /\ now - state.last_saved_at[1] = 7200000
    /\ last_saved_text = <<"2", ".", "0", " hours ago">>

\* C16: after any number of Loads exactly one tick interval and exactly one
\* autosave interval are live, and a Tick comes no sooner than a full period
\* after the Tick, or the creation of the interval, before it.
C16_OneIntervalEach ==
    [][ /\ tick_intervals' = 1
        /\ autosave_intervals' = 1
        /\ event' = "Tick" => tick_due' - tick_due >= TICK_MS ]_vars

\* a Tick delivered after the intervals were created a third time
C16_Witness ==
    /\ event = "Tick" /\ interval_key = 2
    /\ tick_intervals = 1 /\ autosave_intervals = 1

\* C17: a failed Save, a failed autosave and a failed Load each write
\* exactly one message to the console.
C17_FailuresLoggedOnce ==
    [][ (event' \in {"Save", "Autosave", "Load"} /\ ~ok')
        => Len(console') = 1 ]_vars

\* C18 as stated: scientific notation exactly when suffixIndex exceeds the
\* number of suffixes, the suffix at suffixIndex otherwise.
C18_FallbackBySuffixIndex ==
    (formatted # <<>> /\ Len(num_str) > 3) =>
        LET si == (Len(num_str) - 1) \div 3
        IN  /\ IsScientific(formatted) <=> si > Len(SUFFIXES)
            /\ ~IsScientific(formatted)
                 => formatted # Panic /\ EndsWith(formatted, SUFFIXES[si + 1])

\* C18 amended: scientific notation exactly when len / 3 is at least the
\* number of suffixes, that is from 30 digits on; for 3 < len <= 29 the
\* suffix at suffixIndex.
C18_FallbackByLength ==
    (formatted # <<>> /\ Len(num_str) > 3) =>
        LET si == (Len(num_str) - 1) \div 3
        IN  /\ IsScientific(formatted)
                 <=> Len(num_str) \div 3 >= Len(SUFFIXES)
            /\ IsScientific(formatted) <=> Len(num_str) >= 30
            /\ ~IsScientific(formatted)
                 => formatted # Panic /\ EndsWith(formatted, SUFFIXES[si + 1])

\* a number of 29 digits has been rendered with the last suffix
C18_Witness ==
    Len(num_str) = 29 /\ formatted = <<"1", "5", "O", "c">>


====
